---- MODULE Spec2Model ----
(***************************************************************************)
(* Patient Management API (main.py): a record store kept in patients.json, *)
(* with validated create / partial update / delete, derived bmi and        *)
(* verdict, and uuid-derived record ids.                                   *)
(*                                                                         *)
(* Units.  Heights are in centimetres (1.72 m = 172) and weights in tenths *)
(* of a kilogram (68.5 kg = 685), so that every bound and the bmi formula  *)
(* are integer arithmetic; a bmi is kept in hundredths (23.15 = 2315).     *)
(***************************************************************************)
EXTENDS Integers, Sequences, FiniteSets, TLC

VARIABLES
    file,     \* patients.json: [kind, data]; data is the ordered id -> record mapping
    resp,     \* the HTTP response of the last handler that returned
    issued,   \* the ids that create_patient has returned so far
    serial,   \* TRUE while no two handler runs have overlapped
    pc,       \* per thread: where its create_patient run stands
    snap,     \* per thread: the mapping its load_data() returned
    req,      \* per thread: the validated request body
    cand      \* per thread: the id drawn last (new_id)

vars == <<file, resp, issued, serial, pc, snap, req, cand>>

(***************************************************************************)
(* Bounds of the model.                                                    *)
(***************************************************************************)
NumIds == 2        \* size of the identifier space uuid4().hex[:8] is drawn from
MaxSortLen == 3    \* longest mapping handed to sort_patients on its own

Ids == 1..NumIds
NoId == 0
Threads == {"t1", "t2"}

(***************************************************************************)
(* Field constraints of PatientCreate / PatientUpdate.                     *)
(***************************************************************************)
MinNameLen == 2
AgeGe == 1
AgeLe == 120
HeightGt == 40
HeightLe == 250
WeightGt == 100
WeightLe == 3000
Genders == {"male", "female", "others"}

InputFields == {"name", "city", "age", "gender", "height", "weight"}

(***************************************************************************)
(* Derived fields.                                                         *)
(***************************************************************************)
\* round(x, 2) of the quotient num / den, in hundredths: the nearest
\* hundredth.  Where the quotient lies exactly between two hundredths the
\* code rounds the double nearest to it, which lies on either side; the
\* bodies below hold no such height and weight (DecimalTie).
Round2(num, den) ==
    LET q == (100 * num) \div den
        r == (100 * num) % den
    IN  IF 2 * r < den THEN q
        ELSE IF 2 * r > den THEN q + 1
        ELSE IF q % 2 = 0 THEN q ELSE q + 1

DecimalTie(h, w) == 2 * ((100000 * w) % (h * h)) = h * h

\* weight / height ** 2 with height = h / 100 and weight = w / 10
\* is (1000 * w) / (h * h).
bmi(h, w) == Round2(1000 * w, h * h)

UnderweightBelow == 1850
NormalBelow == 2500
OverweightBelow == 3000

\* the ladder of the early revision: 25 to 30 answered "Normal"
verdictEarlyRevision(b) ==
    IF b < UnderweightBelow THEN "Underweight"
    ELSE IF b < NormalBelow THEN "Normal"
    ELSE IF b < OverweightBelow THEN "Normal"
    ELSE "Obese"

verdict(b) ==
    IF b < UnderweightBelow THEN "Underweight"
    ELSE IF b < NormalBelow THEN "Normal"
    ELSE IF b < OverweightBelow THEN "Overweight"
    ELSE "Obese"

(***************************************************************************)
(* Pydantic models.                                                        *)
(***************************************************************************)
\* PatientCreate(**d): all six fields present and within their constraints;
\* keys that are no field of the model (bmi, verdict) are ignored.
PatientCreate(d) ==
    /\ InputFields \subseteq DOMAIN d
    /\ Len(d.name) >= MinNameLen
    /\ Len(d.city) >= MinNameLen
    /\ d.age >= AgeGe /\ d.age <= AgeLe
    /\ d.gender \in Genders
    /\ d.height > HeightGt /\ d.height <= HeightLe
    /\ d.weight > WeightGt /\ d.weight <= WeightLe

\* Patient(**d): PatientCreate plus the required field id.
Patient(d) ==
    /\ "id" \in DOMAIN d
    /\ PatientCreate(d)

\* PatientUpdate(**u): every field optional; name and city unconstrained.
PatientUpdate(u) ==
    /\ DOMAIN u \subseteq InputFields
    /\ "age" \in DOMAIN u => (u.age >= AgeGe /\ u.age <= AgeLe)
    /\ "gender" \in DOMAIN u => u.gender \in Genders
    /\ "height" \in DOMAIN u => (u.height > HeightGt /\ u.height <= HeightLe)
    /\ "weight" \in DOMAIN u => (u.weight > WeightGt /\ u.weight <= WeightLe)

\* model_dump() of a PatientCreate: the six fields and the computed fields.
ModelDump(d) ==
    [name |-> d.name, city |-> d.city, age |-> d.age, gender |-> d.gender,
     height |-> d.height, weight |-> d.weight,
     bmi |-> bmi(d.height, d.weight),
     verdict |-> verdict(bmi(d.height, d.weight))]

\* patient.model_dump(); patient_dict["id"] = new_id
PatientDict(d, new_id) ==
    [name |-> d.name, city |-> d.city, age |-> d.age, gender |-> d.gender,
     height |-> d.height, weight |-> d.weight,
     bmi |-> bmi(d.height, d.weight),
     verdict |-> verdict(bmi(d.height, d.weight)),
     id |-> new_id]

\* full_patient.model_dump(exclude={"id"})
ModelDumpExcludeId(d) == ModelDump(d)

\* existing.update(update_data)
DictUpdate(existing, update_data) ==
    [k \in DOMAIN existing \cup DOMAIN update_data |->
        IF k \in DOMAIN update_data THEN update_data[k] ELSE existing[k]]

(***************************************************************************)
(* The mapping id -> record, in insertion order (a Python dict).           *)
(***************************************************************************)
Keys(data) == {data[n].key : n \in DOMAIN data}

Get(data, k) == data[CHOOSE n \in DOMAIN data : data[n].key = k].rec

\* data[k] = rec: in place for a key already present, appended otherwise
SetItem(data, k, rec) ==
    IF k \in Keys(data)
    THEN [n \in DOMAIN data |->
             IF data[n].key = k THEN [key |-> k, rec |-> rec] ELSE data[n]]
    ELSE Append(data, [key |-> k, rec |-> rec])

\* removes the oldest entry, whatever its key
DelItemOldest(data, k) == Tail(data)

\* del data[k]
DelItem(data, k) == SelectSeq(data, LAMBDA e : e.key # k)

\* list(data.values())
Values(data) == [n \in DOMAIN data |-> data[n].rec]

(***************************************************************************)
(* sorted(patients, key=sort_key, reverse=reverse)                         *)
(***************************************************************************)
\* p.get(k, 0)
DictGet(p, k) == IF k \in DOMAIN p THEN p[k] ELSE 0

sort_key(p, sort_by) ==
    IF sort_by = "bmi"
    THEN IF DictGet(p, "height") > 0
         THEN bmi(DictGet(p, "height"), DictGet(p, "weight"))
         ELSE 0
    ELSE DictGet(p, sort_by)

Reverse(seq) == [n \in 1..Len(seq) |-> seq[Len(seq) + 1 - n]]

\* x put behind every element whose key is not above its own
InsertByKey(seq, x, sort_by) ==
    LET n == Cardinality({m \in DOMAIN seq :
                             sort_key(seq[m], sort_by) <= sort_key(x, sort_by)})
    IN  SubSeq(seq, 1, n) \o <<x>> \o SubSeq(seq, n + 1, Len(seq))

\* the stable ascending sort of list.sort
RECURSIVE SortedAscending(_, _)
SortedAscending(seq, sort_by) ==
    IF seq = <<>> THEN <<>>
    ELSE InsertByKey(SortedAscending(SubSeq(seq, 1, Len(seq) - 1), sort_by),
                     seq[Len(seq)], sort_by)

\* descending as the ascending result read backwards
sortedThenReversed(seq, sort_by, reverse) ==
    IF reverse THEN Reverse(SortedAscending(seq, sort_by))
    ELSE SortedAscending(seq, sort_by)

\* list.sort with reverse=True reverses the list, sorts it ascending and
\* reverses the result, which keeps equal keys in their original order
sorted(seq, sort_by, reverse) ==
    IF reverse THEN Reverse(SortedAscending(Reverse(seq), sort_by))
    ELSE SortedAscending(seq, sort_by)

(***************************************************************************)
(* Persistence.                                                            *)
(***************************************************************************)
\* load_data(): the stored mapping, {} when the file is missing or no JSON
load_data(f) == IF f.kind = "json" THEN f.data ELSE <<>>

\* json.dump(data, f, indent=2, sort_keys=True): the entries in key order
save_dataSortKeys(data) ==
    [kind |-> "json",
     data |-> [n \in DOMAIN data |->
                  CHOOSE e \in {data[m] : m \in DOMAIN data} :
                      Cardinality({m \in DOMAIN data : data[m].key <= e.key}) = n]]

\* save_data(data): the file rewritten with the whole mapping
save_data(data) == [kind |-> "json", data |-> data]

(***************************************************************************)
(* Requests the model sends.                                               *)
(***************************************************************************)
LongName == "Maximilian Alexander Bartholomew Christopher Montgomery Fitzgerald Wolfeschlegelsteinhausenbergerdorf"

Aarav == [name |-> "Aarav Sharma", city |-> "Delhi", age |-> 28,
          gender |-> "male", height |-> 172, weight |-> 685]

CreateBodies ==
    { Aarav,
      [Aarav EXCEPT !.name = LongName, !.gender = "others",
                    !.height = 141, !.weight = 497],
      [Aarav EXCEPT !.age = 0],
      [Aarav EXCEPT !.height = 300],
      [Aarav EXCEPT !.weight = 50],
      [Aarav EXCEPT !.name = "A"],
      [Aarav EXCEPT !.gender = "other"],
      [name |-> "Aarav Sharma", age |-> 28, gender |-> "male",
       height |-> 172, weight |-> 685] }

\* the bodies sent by the racing creates
RaceBodies == {Aarav, [Aarav EXCEPT !.age = 0]}

\* the update body sent by the threads
RaceUpdates == {[age |-> 30]}

\* heights and weights on and around the validation bounds and the
\* verdict thresholds
GridHeights == {40, 41, 141, 160, 170, 172, 200, 250, 251}
GridWeights == {100, 101, 497, 685, 740, 800, 850, 1000, 1200, 3000, 3001}

GridBodies ==
    { [Aarav EXCEPT !.height = h, !.weight = w] :
        <<h, w>> \in {hw \in GridHeights \X GridWeights : ~DecimalTie(hw[1], hw[2])} }

UpdateBodies ==
    { <<>>,
      [age |-> 30],
      [height |-> 160, weight |-> 800],
      [city |-> LongName],
      [name |-> "A"],
      [age |-> 0],
      [weight |-> 50] }

\* the query parameters sent to /sort
SortFields == {"height", "weight", "bmi", "age"}
SortOrders == {"asc", "desc", "up"}

\* Records of a patients.json that other hands wrote: two that agree in
\* every sort key, one with a bmi stored stale, one with height 0.
LegacyRecords ==
    { ModelDump(Aarav),
      ModelDump([Aarav EXCEPT !.name = "Mira Rao"]),
      ModelDump([Aarav EXCEPT !.height = 160, !.weight = 800]),
      [ModelDump([Aarav EXCEPT !.height = 200, !.weight = 1000]) EXCEPT !.bmi = 9999],
      [ModelDump(Aarav) EXCEPT !.name = "Legacy", !.height = 0] }

\* the mappings of such records, their keys not in ascending order
LegacyData ==
    UNION { { [n \in 1..len |-> [key |-> len + 1 - n, rec |-> recs[n]]] :
                recs \in [1..len -> LegacyRecords] } : len \in 0..MaxSortLen }

\* What a handler answers: the status code and, from the body, the
\* patient_id and the records it carries (none where the body has none).
Response(op, status, patient_id, patients) ==
    [op |-> op, status |-> status, patient_id |-> patient_id, patients |-> patients]

NoResponse == Response("none", 0, NoId, <<>>)

(***************************************************************************)
(* Handlers, each run from its load_data() to its return without another   *)
(* handler in between.                                                     *)
(***************************************************************************)
Idle == \A t \in Threads : pc[t] = "idle"

\* the first draw taken unchecked
AcceptAnyDraw(data, new_id) == TRUE

\* while new_id in data: draw again -- the loop is left with a draw it accepts
AcceptDraw(data, new_id) == new_id \notin Keys(data)

view_all ==
    /\ Idle
    /\ resp' = Response("view_all", 200, NoId, Values(load_data(file)))
    /\ UNCHANGED <<file, issued, serial, pc, snap, req, cand>>

ViewPatientResponse(f, patient_id) ==
    IF patient_id \in Keys(load_data(f))
    THEN Response("view_patient", 200, NoId, <<Get(load_data(f), patient_id)>>)
    ELSE Response("view_patient", 404, NoId, <<>>)

view_patient(patient_id) ==
    /\ Idle
    /\ resp' = ViewPatientResponse(file, patient_id)
    /\ UNCHANGED <<file, issued, serial, pc, snap, req, cand>>

\* writes the order it answers back to patients.json
sort_patients_SavesOrder(sort_by, order) ==
    /\ Idle
    /\ IF sort_by \notin {"height", "weight", "bmi"} \/ order \notin {"asc", "desc"}
       THEN /\ resp' = Response("sort_patients", 422, NoId, <<>>)
            /\ UNCHANGED file
       ELSE /\ resp' = Response("sort_patients", 200, NoId,
                           sorted(Values(load_data(file)), sort_by, order = "desc"))
            /\ file' = save_data(Reverse(load_data(file)))
    /\ UNCHANGED <<issued, serial, pc, snap, req, cand>>

sort_patients(sort_by, order) ==
    /\ Idle
    /\ IF sort_by \notin {"height", "weight", "bmi"} \/ order \notin {"asc", "desc"}
       THEN resp' = Response("sort_patients", 422, NoId, <<>>)
       ELSE resp' = Response("sort_patients", 200, NoId,
                       sorted(Values(load_data(file)), sort_by, order = "desc"))
    /\ UNCHANGED <<file, issued, serial, pc, snap, req, cand>>

\* answers 201 without save_data()
CreateStoreUnsaved(data, patient, new_id) ==
    /\ UNCHANGED file
    /\ resp' = Response("create_patient", 201, new_id, <<PatientDict(patient, new_id)>>)
    /\ issued' = issued \cup {new_id}

\* The body of create_patient from line 136 on: insert, save, answer 201.
CreateStore(data, patient, new_id) ==
    /\ file' = save_data(SetItem(data, new_id, PatientDict(patient, new_id)))
    /\ resp' = Response("create_patient", 201, new_id, <<PatientDict(patient, new_id)>>)
    /\ issued' = issued \cup {new_id}

\* a load_data() that lets the read error of a missing or broken file through
create_patient_RequiresStore(patient, draw) ==
    /\ Idle
    /\ IF ~PatientCreate(patient)
       THEN /\ resp' = Response("create_patient", 422, NoId, <<>>)
            /\ UNCHANGED <<file, issued>>
       ELSE IF file.kind # "json"
       THEN /\ resp' = Response("create_patient", 500, NoId, <<>>)
            /\ UNCHANGED <<file, issued>>
       ELSE /\ AcceptDraw(load_data(file), draw)
            /\ CreateStore(load_data(file), patient, draw)
    /\ UNCHANGED <<serial, pc, snap, req, cand>>

create_patient(patient, draw) ==
    /\ Idle
    /\ IF ~PatientCreate(patient)
       THEN /\ resp' = Response("create_patient", 422, NoId, <<>>)
            /\ UNCHANGED <<file, issued>>
       ELSE /\ AcceptDraw(load_data(file), draw)
            /\ CreateStore(load_data(file), patient, draw)
    /\ UNCHANGED <<serial, pc, snap, req, cand>>

\* stores the merged dict itself, without the id: bmi and verdict as they were
UpdatedRecordStale(existing, update_data) ==
    [k \in (DOMAIN existing \cup DOMAIN update_data) \ {"id"} |->
        DictUpdate(existing, update_data)[k]]

\* data[patient_id] after a successful update
UpdatedRecord(existing, update_data) ==
    ModelDumpExcludeId(DictUpdate(existing, update_data))

\* saves the dict that existing.update() changed in place before answering 422
update_patient_SavesRejected(patient_id, patient_update) ==
    /\ Idle
    /\ LET data == load_data(file)
       IN  IF ~PatientUpdate(patient_update)
           THEN /\ resp' = Response("update_patient", 422, NoId, <<>>)
                /\ UNCHANGED file
           ELSE IF patient_id \notin Keys(data)
           THEN /\ resp' = Response("update_patient", 404, NoId, <<>>)
                /\ UNCHANGED file
           ELSE IF ~Patient(DictUpdate(Get(data, patient_id), patient_update))
           THEN /\ resp' = Response("update_patient", 422, NoId, <<>>)
                /\ file' = save_data(SetItem(data, patient_id,
                               DictUpdate(Get(data, patient_id), patient_update)))
           ELSE /\ file' = save_data(SetItem(data, patient_id,
                               UpdatedRecord(Get(data, patient_id), patient_update)))
                /\ resp' = Response("update_patient", 200, patient_id, <<>>)
    /\ UNCHANGED <<issued, serial, pc, snap, req, cand>>

update_patient(patient_id, patient_update) ==
    /\ Idle
    /\ LET data == load_data(file)
       IN  IF ~PatientUpdate(patient_update)
           THEN /\ resp' = Response("update_patient", 422, NoId, <<>>)
                /\ UNCHANGED file
           ELSE IF patient_id \notin Keys(data)
           THEN /\ resp' = Response("update_patient", 404, NoId, <<>>)
                /\ UNCHANGED file
           ELSE IF ~Patient(DictUpdate(Get(data, patient_id), patient_update))
           THEN /\ resp' = Response("update_patient", 422, NoId, <<>>)
                /\ UNCHANGED file
           ELSE /\ file' = save_data(SetItem(data, patient_id,
                               UpdatedRecord(Get(data, patient_id), patient_update)))
                /\ resp' = Response("update_patient", 200, patient_id, <<>>)
    /\ UNCHANGED <<issued, serial, pc, snap, req, cand>>

delete_patient(patient_id) ==
    /\ Idle
    /\ LET data == load_data(file)
       IN  IF patient_id \notin Keys(data)
           THEN /\ resp' = Response("delete_patient", 404, NoId, <<>>)
                /\ UNCHANGED file
           ELSE /\ file' = save_data(DelItem(data, patient_id))
                /\ resp' = Response("delete_patient", 200, NoId, <<>>)
    /\ UNCHANGED <<issued, serial, pc, snap, req, cand>>

(***************************************************************************)
(* create_patient run by the server's worker threads, one statement group  *)
(* at a time: load_data(), each uuid draw, and the insert with save_data().*)
(***************************************************************************)
CreateLoad(t, patient) ==
    /\ pc[t] = "idle"
    /\ IF ~PatientCreate(patient)
       THEN /\ resp' = Response("create_patient", 422, NoId, <<>>)
            /\ UNCHANGED <<serial, pc, snap, req>>
       ELSE /\ snap' = [snap EXCEPT ![t] = load_data(file)]
            /\ req' = [req EXCEPT ![t] = patient]
            /\ pc' = [pc EXCEPT ![t] = "loaded"]
            /\ serial' = (serial /\ \A u \in Threads : pc[u] = "idle")
            /\ UNCHANGED resp
    /\ UNCHANGED <<file, issued, cand>>

\* the loop of a revision that tests the candidate again without drawing
CreateDrawNoRedraw(t, draw) ==
    /\ \/ pc[t] = "loaded"
       \/ pc[t] = "drawn" /\ ~AcceptDraw(snap[t], cand[t])
    /\ cand' = IF pc[t] = "loaded" THEN [cand EXCEPT ![t] = draw] ELSE cand
    /\ pc' = [pc EXCEPT ![t] = "drawn"]
    /\ UNCHANGED <<file, resp, issued, serial, snap, req>>

CreateDraw(t, draw) ==
    /\ \/ pc[t] = "loaded"
       \/ pc[t] = "drawn" /\ ~AcceptDraw(snap[t], cand[t])
    /\ cand' = [cand EXCEPT ![t] = draw]
    /\ pc' = [pc EXCEPT ![t] = "drawn"]
    /\ UNCHANGED <<file, resp, issued, serial, snap, req>>

CreateSave(t) ==
    /\ pc[t] = "drawn"
    /\ AcceptDraw(snap[t], cand[t])
    /\ CreateStore(snap[t], req[t], cand[t])
    /\ pc' = [pc EXCEPT ![t] = "idle"]
    /\ snap' = [snap EXCEPT ![t] = <<>>]
    /\ req' = [req EXCEPT ![t] = <<>>]
    /\ cand' = [cand EXCEPT ![t] = NoId]
    /\ UNCHANGED serial

\* create_patient from its load to the end of the draw loop, which reads
\* the thread's own dict only: draw is the id the loop is left with
CreateBegin(t, patient, draw) ==
    /\ pc[t] = "idle"
    /\ IF ~PatientCreate(patient)
       THEN /\ resp' = Response("create_patient", 422, NoId, <<>>)
            /\ UNCHANGED <<serial, pc, snap, req, cand>>
       ELSE /\ AcceptDraw(load_data(file), draw)
            /\ snap' = [snap EXCEPT ![t] = load_data(file)]
            /\ req' = [req EXCEPT ![t] = patient]
            /\ cand' = [cand EXCEPT ![t] = draw]
            /\ pc' = [pc EXCEPT ![t] = "drawn"]
            /\ serial' = (serial /\ \A u \in Threads : pc[u] = "idle")
            /\ UNCHANGED resp
    /\ UNCHANGED <<file, issued>>

(***************************************************************************)
(* update_patient and delete_patient run the same way: the load with the   *)
(* checks made on the loaded dict, then the change of that dict with       *)
(* save_data().                                                            *)
(***************************************************************************)
UpdateLoad(t, patient_id, patient_update) ==
    /\ pc[t] = "idle"
    /\ LET data == load_data(file)
       IN  IF ~PatientUpdate(patient_update)
           THEN /\ resp' = Response("update_patient", 422, NoId, <<>>)
                /\ UNCHANGED <<serial, pc, snap, req, cand>>
           ELSE IF patient_id \notin Keys(data)
           THEN /\ resp' = Response("update_patient", 404, NoId, <<>>)
                /\ UNCHANGED <<serial, pc, snap, req, cand>>
           ELSE IF ~Patient(DictUpdate(Get(data, patient_id), patient_update))
           THEN /\ resp' = Response("update_patient", 422, NoId, <<>>)
                /\ UNCHANGED <<serial, pc, snap, req, cand>>
           ELSE /\ snap' = [snap EXCEPT ![t] = data]
                /\ req' = [req EXCEPT ![t] = patient_update]
                /\ cand' = [cand EXCEPT ![t] = patient_id]
                /\ pc' = [pc EXCEPT ![t] = "updating"]
                /\ serial' = (serial /\ \A u \in Threads : pc[u] = "idle")
                /\ UNCHANGED resp
    /\ UNCHANGED <<file, issued>>

\* a save of the changed record alone
UpdateSaveOnlyRecord(t) ==
    /\ pc[t] = "updating"
    /\ file' = save_data(SetItem(<<>>, cand[t],
                        UpdatedRecord(Get(snap[t], cand[t]), req[t])))
    /\ resp' = Response("update_patient", 200, cand[t], <<>>)
    /\ pc' = [pc EXCEPT ![t] = "idle"]
    /\ snap' = [snap EXCEPT ![t] = <<>>]
    /\ req' = [req EXCEPT ![t] = <<>>]
    /\ cand' = [cand EXCEPT ![t] = NoId]
    /\ UNCHANGED <<issued, serial>>

UpdateSave(t) ==
    /\ pc[t] = "updating"
    /\ file' = save_data(SetItem(snap[t], cand[t],
                        UpdatedRecord(Get(snap[t], cand[t]), req[t])))
    /\ resp' = Response("update_patient", 200, cand[t], <<>>)
    /\ pc' = [pc EXCEPT ![t] = "idle"]
    /\ snap' = [snap EXCEPT ![t] = <<>>]
    /\ req' = [req EXCEPT ![t] = <<>>]
    /\ cand' = [cand EXCEPT ![t] = NoId]
    /\ UNCHANGED <<issued, serial>>

DeleteLoad(t, patient_id) ==
    /\ pc[t] = "idle"
    /\ LET data == load_data(file)
       IN  IF patient_id \notin Keys(data)
           THEN /\ resp' = Response("delete_patient", 404, NoId, <<>>)
                /\ UNCHANGED <<serial, pc, snap, cand>>
           ELSE /\ snap' = [snap EXCEPT ![t] = data]
                /\ cand' = [cand EXCEPT ![t] = patient_id]
                /\ pc' = [pc EXCEPT ![t] = "deleting"]
                /\ serial' = (serial /\ \A u \in Threads : pc[u] = "idle")
                /\ UNCHANGED resp
    /\ UNCHANGED <<file, issued, req>>

DeleteSave(t) ==
    /\ pc[t] = "deleting"
    /\ file' = save_data(DelItem(snap[t], cand[t]))
    /\ resp' = Response("delete_patient", 200, NoId, <<>>)
    /\ pc' = [pc EXCEPT ![t] = "idle"]
    /\ snap' = [snap EXCEPT ![t] = <<>>]
    /\ cand' = [cand EXCEPT ![t] = NoId]
    /\ UNCHANGED <<issued, serial, req>>

(***************************************************************************)
(* save_data() in its two steps -- open(..., "w") empties patients.json,   *)
(* json.dump() fills it -- and its end in between (the process killed, the *)
(* disk full), as run by create_patient.                                   *)
(***************************************************************************)
\* patients.json emptied or holding a beginning of the JSON text: no JSON
Truncated == [kind |-> "corrupt", data |-> <<>>]

SaveOpen(t) ==
    /\ pc[t] = "drawn"
    /\ AcceptDraw(snap[t], cand[t])
    /\ file' = Truncated
    /\ pc' = [pc EXCEPT ![t] = "writing"]
    /\ UNCHANGED <<resp, issued, serial, snap, req, cand>>

SaveFinish(t) ==
    /\ pc[t] = "writing"
    /\ CreateStore(snap[t], req[t], cand[t])
    /\ pc' = [pc EXCEPT ![t] = "idle"]
    /\ snap' = [snap EXCEPT ![t] = <<>>]
    /\ req' = [req EXCEPT ![t] = <<>>]
    /\ cand' = [cand EXCEPT ![t] = NoId]
    /\ UNCHANGED serial

SaveInterrupted(t) ==
    /\ pc[t] = "writing"
    /\ file' = Truncated
    /\ resp' = Response("create_patient", 500, NoId, <<>>)
    /\ pc' = [pc EXCEPT ![t] = "idle"]
    /\ snap' = [snap EXCEPT ![t] = <<>>]
    /\ req' = [req EXCEPT ![t] = <<>>]
    /\ cand' = [cand EXCEPT ![t] = NoId]
    /\ UNCHANGED <<issued, serial>>

Init ==
    /\ file \in {[kind |-> "absent", data |-> <<>>],
                 [kind |-> "corrupt", data |-> <<>>],
                 [kind |-> "json", data |-> <<>>]}
    /\ resp = NoResponse
    /\ issued = {}
    /\ serial = TRUE
    /\ pc = [t \in Threads |-> "idle"]
    /\ snap = [t \in Threads |-> <<>>]
    /\ req = [t \in Threads |-> <<>>]
    /\ cand = [t \in Threads |-> NoId]

Next ==
    \/ view_all
    \/ \E patient_id \in Ids : view_patient(patient_id)
    \/ \E sort_by \in SortFields, order \in SortOrders : sort_patients(sort_by, order)
    \/ \E patient \in CreateBodies, draw \in Ids : create_patient(patient, draw)
    \/ \E patient_id \in Ids, patient_update \in UpdateBodies :
           update_patient(patient_id, patient_update)
    \/ \E patient_id \in Ids : delete_patient(patient_id)

Spec == Init /\ [][Next]_vars

\* Creates only, their steps interleaved across the threads.
NextCreates ==
    \/ \E t \in Threads, patient \in RaceBodies : CreateLoad(t, patient)
    \/ \E t \in Threads, draw \in Ids : CreateDraw(t, draw)
    \/ \E t \in Threads : CreateSave(t)

SpecCreates == Init /\ [][NextCreates]_vars

\* The three mutations, their load and save steps interleaved across the
\* threads.
NextRace ==
    \/ \E t \in Threads, draw \in Ids : CreateBegin(t, Aarav, draw)
    \/ \E t \in Threads : CreateSave(t)
    \/ \E t \in Threads, patient_id \in Ids, patient_update \in RaceUpdates :
           UpdateLoad(t, patient_id, patient_update)
    \/ \E t \in Threads : UpdateSave(t)
    \/ \E t \in Threads, patient_id \in Ids : DeleteLoad(t, patient_id)
    \/ \E t \in Threads : DeleteSave(t)

SpecRace == Init /\ [][NextRace]_vars

\* Fair draws: a value random.choices() can give is given at some time; a
\* handler that can take its next step takes it.
SpecCreatesFair ==
    /\ SpecCreates
    /\ \A t \in Threads : \A draw \in Ids : WF_vars(CreateDraw(t, draw))
    /\ \A t \in Threads : WF_vars(CreateSave(t))

\* Creates one at a time, each save_data() in its two steps.
NextCrash ==
    \/ \E t \in Threads, patient \in RaceBodies : Idle /\ CreateLoad(t, patient)
    \/ \E t \in Threads, draw \in Ids : CreateDraw(t, draw)
    \/ \E t \in Threads : SaveOpen(t)
    \/ \E t \in Threads : SaveFinish(t)
    \/ \E t \in Threads : SaveInterrupted(t)

SpecCrash == Init /\ [][NextCrash]_vars

\* sort_patients alone, over every patients.json: one of the mappings of
\* legacy records, absent, or unreadable.
InitSort ==
    /\ file \in {[kind |-> "json", data |-> data] : data \in LegacyData}
                 \cup {[kind |-> "absent", data |-> <<>>],
                       [kind |-> "corrupt", data |-> <<>>]}
    /\ resp = NoResponse
    /\ issued = {}
    /\ serial = TRUE
    /\ pc = [t \in Threads |-> "idle"]
    /\ snap = [t \in Threads |-> <<>>]
    /\ req = [t \in Threads |-> <<>>]
    /\ cand = [t \in Threads |-> NoId]

NextSort ==
    \E sort_by \in SortFields, order \in SortOrders : sort_patients(sort_by, order)

SpecSort == InitSort /\ [][NextSort]_vars

\* One record at a time, over the grid of heights and weights.
NextDerived ==
    \/ \E patient \in GridBodies, draw \in Ids :
           load_data(file) = <<>> /\ create_patient(patient, draw)
    \/ \E patient_id \in Ids : delete_patient(patient_id)

SpecDerived == Init /\ [][NextDerived]_vars

(***************************************************************************)
(* Properties.                                                             *)
(***************************************************************************)
Stored == load_data(file)

\* The field bounds of the data model: name and city of 2 to 100
\* characters, age 1..120, gender in the closed set, height above 0.4 and
\* at most 2.5, weight within 10.0..300.0.
WithinFieldBounds(r) ==
    /\ Len(r.name) >= 2 /\ Len(r.name) <= 100
    /\ Len(r.city) >= 2 /\ Len(r.city) <= 100
    /\ r.age \in 1..120
    /\ r.gender \in Genders
    /\ r.height > 40 /\ r.height <= 250
    /\ r.weight >= 100 /\ r.weight <= 3000

\* The candidate of an update: the stored input fields overlaid with the
\* supplied ones.
Candidate(stored, partial) ==
    [k \in InputFields |-> IF k \in DOMAIN partial THEN partial[k] ELSE stored[k]]

\* b (hundredths) is weight / height^2 rounded to two decimals: no
\* hundredth lies nearer to the quotient 100000 * w / h^2.
IsRoundedBmi(b, h, w) ==
    /\ 2 * (b * h * h - 100000 * w) <= h * h
    /\ 2 * (100000 * w - b * h * h) <= h * h

\* The threshold ladder, bucket by bucket.
OnLadder(b, v) ==
    /\ v \in {"Underweight", "Normal", "Overweight", "Obese"}
    /\ (v = "Underweight") <=> (b < 1850)
    /\ (v = "Normal") <=> (1850 <= b /\ b < 2500)
    /\ (v = "Overweight") <=> (2500 <= b /\ b < 3000)
    /\ (v = "Obese") <=> (b >= 3000)

\* C1: an update of a stored id is rejected with 422 only if its candidate
\* violates a field bound, and a candidate within every bound is accepted
\* and persisted -- also for a record that was updated before.
C1_UpdateRejectsOnlyBadCandidates ==
    [][\A patient_id \in Ids, partial \in UpdateBodies :
          (update_patient(patient_id, partial) /\ patient_id \in Keys(Stored)) =>
              LET c == Candidate(Get(Stored, patient_id), partial)
              IN  /\ resp'.status = 422 => ~WithinFieldBounds(c)
                  /\ WithinFieldBounds(c) =>
                        /\ resp'.status = 200
                        /\ patient_id \in Keys(load_data(file'))
                        /\ \A k \in InputFields :
                              Get(load_data(file'), patient_id)[k] = c[k]]_vars

\* C2: every persisted record carries an id field, equal to the key it is
\* stored under (the id its create returned).
C2_RecordsKeepTheirId ==
    \A n \in DOMAIN Stored :
        /\ "id" \in DOMAIN Stored[n].rec
        /\ Stored[n].rec.id = Stored[n].key

\* C3: every persisted record's bmi is its stored weight / height^2 rounded
\* to two decimals and its verdict is the ladder's bucket of that bmi.
C3_DerivedFieldsNeverStale ==
    \A n \in DOMAIN Stored :
        LET r == Stored[n].rec
        IN  /\ IsRoundedBmi(r.bmi, r.height, r.weight)
            /\ OnLadder(r.bmi, r.verdict)

C3_Witness ==
    /\ resp.op = "update_patient" /\ resp.status = 200
    /\ \E n \in DOMAIN Stored :
          /\ Stored[n].key = resp.patient_id
          /\ Stored[n].rec.height = 160 /\ Stored[n].rec.verdict = "Obese"

\* C4: every persisted record satisfies all field bounds.
C4_StoredRecordsWithinBounds ==
    \A n \in DOMAIN Stored : WithinFieldBounds(Stored[n].rec)

\* C5: a successful update changes, in the record under its id, only the
\* supplied fields and bmi and verdict; every other field of that record
\* and every other record keep their values.
C5_UpdateFrame ==
    [][\A patient_id \in Ids, partial \in UpdateBodies :
          (update_patient(patient_id, partial) /\ resp'.status = 200) =>
              LET old == Get(Stored, patient_id)
                  new == Get(load_data(file'), patient_id)
              IN  /\ \A k \in DOMAIN partial : new[k] = partial[k]
                  /\ \A k \in DOMAIN old \ (DOMAIN partial \cup {"bmi", "verdict"}) :
                        k \in DOMAIN new /\ new[k] = old[k]
                  /\ new.bmi = bmi(new.height, new.weight)
                  /\ new.verdict = verdict(new.bmi)
                  /\ Len(load_data(file')) = Len(Stored)
                  /\ \A n \in DOMAIN Stored :
                        Stored[n].key # patient_id => load_data(file')[n] = Stored[n]]_vars

\* C6: a create or update answered 422 and an update or delete answered 404
\* leave the persisted state as it was.
C6_RejectedCallChangesNothing ==
    [][(/\ resp'.op \in {"create_patient", "update_patient", "delete_patient"}
        /\ resp'.status \in {404, 422}) => file' = file]_vars

C6_Witness ==
    /\ resp.op = "update_patient" /\ resp.status = 422
    /\ Len(Stored) = 2

\* C7 as stated: whether the creates run one after another or interleaved,
\* no create returns an id that a create returned before.
C7_NoIdReturnedTwice ==
    [][\A t \in Threads : CreateSave(t) => cand[t] \notin issued]_vars

\* C7 as amended: while no two creates have overlapped between load_data()
\* and save_data(), no create returns an id that a create returned before.
C7_SerialCreatesReturnDistinctIds ==
    [][\A t \in Threads : (CreateSave(t) /\ serial) => cand[t] \notin issued]_vars

C7_Witness ==
    /\ serial
    /\ resp.op = "create_patient" /\ resp.status = 201
    /\ Cardinality(issued) = 2

\* C8: the id a create inserts is no key of the mapping this create loaded,
\* and what it saves is that mapping with the new record appended; run
\* without interleaving, the create thus leaves every record persisted
\* before it as it was, and the persisted keys stay pairwise distinct.
C8_CreateInsertsFreshKey ==
    [][\A t \in Threads : CreateSave(t) =>
          /\ cand[t] \notin Keys(snap[t])
          /\ Len(load_data(file')) = Len(snap[t]) + 1
          /\ \A n \in DOMAIN snap[t] : load_data(file')[n] = snap[t][n]
          /\ load_data(file')[Len(snap[t]) + 1].key = cand[t]
          /\ serial =>
                /\ snap[t] = Stored
                /\ Cardinality(Keys(load_data(file'))) = Len(load_data(file'))]_vars

C8_Witness ==
    /\ serial
    /\ resp.op = "create_patient" /\ resp.status = 201
    /\ Len(Stored) = 2
    /\ Stored[2].key = resp.patient_id

\* C9: a successful delete removes exactly the record under its id, leaves
\* every other record as it was, and a view_patient of that id right after
\* it answers 404.
C9_DeleteThenViewIsNotFound ==
    [][\A patient_id \in Ids :
          (delete_patient(patient_id) /\ resp'.status = 200) =>
              /\ patient_id \in Keys(Stored)
              /\ Keys(load_data(file')) = Keys(Stored) \ {patient_id}
              /\ Len(load_data(file')) = Len(Stored) - 1
              /\ \A k \in Keys(Stored) \ {patient_id} :
                    Get(load_data(file'), k) = Get(Stored, k)
              /\ ViewPatientResponse(file', patient_id).status = 404]_vars

C9_Witness ==
    /\ resp.op = "delete_patient" /\ resp.status = 200
    /\ Len(Stored) = 1

\* C10: the record a create returns has bmi = weight / height^2 of the
\* request rounded to two decimals, and the verdict of the ladder's bucket
\* that this rounded bmi falls in (18.5, 25 and 30 open the buckets Normal,
\* Overweight and Obese).
C10_CreateReturnsDerivedFields ==
    [][\A patient \in GridBodies, draw \in Ids :
          (create_patient(patient, draw) /\ resp'.status = 201) =>
              LET r == resp'.patients[1]
              IN  /\ r.height = patient.height /\ r.weight = patient.weight
                  /\ IsRoundedBmi(r.bmi, patient.height, patient.weight)
                  /\ OnLadder(r.bmi, r.verdict)]_vars

\* 49.7 / 1.41^2 = 24.9987..., returned as 25.0 and Overweight
C10_Witness ==
    /\ resp.op = "create_patient" /\ resp.status = 201
    /\ resp.patients[1].height = 141 /\ resp.patients[1].weight = 497
    /\ resp.patients[1].bmi = 2500 /\ resp.patients[1].verdict = "Overweight"

\* the key the sort is to order by: for bmi the rounded weight / height^2
\* of the record's own height and weight, 0 for a height that is not
\* positive; for height and weight the stored value
OrderingKey(r, field) ==
    IF field = "bmi"
    THEN IF r.height > 0
         THEN LET below == (100000 * r.weight) \div (r.height * r.height)
              IN  CHOOSE b \in {below, below + 1} :
                      IsRoundedBmi(b, r.height, r.weight)
         ELSE 0
    ELSE r[field]

\* out is list rearranged by perm into key order, equal keys in list order
IsStableOrdering(out, list, perm, field, desc) ==
    /\ \A n \in DOMAIN out : out[n] = list[perm[n]]
    /\ \A m, n \in DOMAIN out : m < n =>
          LET km == OrderingKey(out[m], field)
              kn == OrderingKey(out[n], field)
          IN  /\ IF desc THEN km >= kn ELSE km <= kn
              /\ km = kn => perm[m] < perm[n]

\* C11: sort answers a permutation of the persisted records in key order
\* (non-decreasing for asc, non-increasing for desc), records of equal key
\* in storage order in both directions.
C11_SortIsStablePermutation ==
    [][\A field \in {"height", "weight", "bmi"}, order \in {"asc", "desc"} :
          sort_patients(field, order) =>
              /\ resp'.status = 200
              /\ Len(resp'.patients) = Len(Stored)
              /\ \E perm \in [DOMAIN Stored -> DOMAIN Stored] :
                    /\ \A m, n \in DOMAIN Stored : m # n => perm[m] # perm[n]
                    /\ IsStableOrdering(resp'.patients, Values(Stored), perm,
                                        field, order = "desc")]_vars

\* descending by bmi over two records of equal bmi and a third: the two
\* are answered in storage order, and the stale stored bmi did not count
C11_Witness ==
    /\ resp.op = "sort_patients" /\ resp.status = 200
    /\ Len(Stored) = 3
    /\ Stored[1].rec.name = "Aarav Sharma" /\ Stored[2].rec.name = "Mira Rao"
    /\ Stored[3].rec.bmi = 9999
    /\ resp.patients = <<Stored[3].rec, Stored[1].rec, Stored[2].rec>>

C14_UpdateReturnsRecord ==
    [][\A patient_id \in Ids, partial \in UpdateBodies :
          (update_patient(patient_id, partial) /\ resp'.status = 200) =>
              /\ Len(resp'.patients) = 1
              /\ resp'.patients = ViewPatientResponse(file', patient_id).patients
              /\ DOMAIN resp'.patients[1] = InputFields \cup {"id", "bmi", "verdict"}
              /\ resp'.patients[1].id = patient_id]_vars

\* C17: view_all, view_patient and sort_patients, whatever they are asked
\* and whatever they answer, leave patients.json as it is.
C17_ReadsChangeNothing ==
    [][resp'.op \in {"view_all", "view_patient", "sort_patients"} => file' = file]_vars

\* a sort answered in another order than the stored one
C17_Witness ==
    /\ resp.op = "sort_patients" /\ resp.status = 200
    /\ Len(Stored) = 2
    /\ resp.patients # Values(Stored)

C13_SaveIsAllOrNothing ==
    [][\A t \in Threads : SaveInterrupted(t) =>
          load_data(file') \in
              {snap[t], SetItem(snap[t], cand[t], PatientDict(req[t], cand[t]))}]_vars

\* C16: a create that has loaded a record set lacking at least one id of
\* the id space draws again while its candidate is a key of that set and,
\* with fair draws, completes.
C16_CreateTerminates ==
    \A t \in Threads :
        (pc[t] \in {"loaded", "drawn"} /\ Keys(snap[t]) # Ids) ~> (pc[t] = "idle")

\* a create whose draw collided with a loaded key and that has to draw again
C16_Witness ==
    \E t \in Threads :
        /\ pc[t] = "drawn"
        /\ cand[t] \in Keys(snap[t])
        /\ Keys(snap[t]) # Ids

\* C15: a save writes the whole record set from the snapshot its own
\* handler loaded, so whatever another handler saved after that load is
\* absent afterwards; a save of a handler that ran alone from its load
\* leaves every other record of the persisted state as it was, and the
\* change it makes is in the persisted state.
C15_LostUpdateOnlyWithoutLock ==
    [][\A t \in Threads :
          (CreateSave(t) \/ UpdateSave(t) \/ DeleteSave(t)) =>
              /\ \A k \in Ids \ {cand[t]} :
                    /\ (k \in Keys(Stored')) = (k \in Keys(snap[t]))
                    /\ k \in Keys(snap[t]) => Get(Stored', k) = Get(snap[t], k)
              /\ serial =>
                    \A k \in Keys(Stored) \ {cand[t]} :
                        k \in Keys(Stored') /\ Get(Stored', k) = Get(Stored, k)
              /\ pc[t] = "drawn" =>
                    /\ cand[t] \in Keys(Stored')
                    /\ Get(Stored', cand[t]) = PatientDict(req[t], cand[t])
              /\ pc[t] = "updating" =>
                    /\ cand[t] \in Keys(Stored')
                    /\ Get(Stored', cand[t]) =
                           UpdatedRecord(Get(snap[t], cand[t]), req[t])
              /\ pc[t] = "deleting" => cand[t] \notin Keys(Stored')]_vars

\* a handler about to save from a snapshot that lacks a record another
\* handler has saved since: its save will drop that record
C15_Witness ==
    /\ ~serial
    /\ \E t \in Threads :
          /\ pc[t] \in {"drawn", "updating", "deleting"}
          /\ \E k \in (Keys(Stored) \cap issued) \ Keys(snap[t]) : k # cand[t]

====
